---- MODULE Spec2Model ----
(***************************************************************************)
(* A model of docfx_yaml/extension.py: the in-memory object graph that the *)
(* autodoc-process-docstring handler assembles, and the files that the     *)
(* build-finished handler writes from it.                                  *)
(*                                                                         *)
(* Python strings that the code splits and joins (dotted names, file       *)
(* names) are sequences of one-character strings; a Python dict is a       *)
(* function whose domain is its set of keys; a Python list is a sequence.  *)
(* Records (datam dicts) are objects: they live in `heap` and the lists of *)
(* the two mappings hold their addresses, so that a record held twice is   *)
(* one object.                                                             *)
(***************************************************************************)
EXTENDS Integers, Sequences, FiniteSets, TLC

VARIABLES
    docfx_yaml_modules,   \* app.env.docfx_yaml_modules: module name -> list of addresses
    docfx_yaml_classes,   \* app.env.docfx_yaml_classes: class name -> list of addresses
    docfx_module_data,    \* app.env.docfx_module_data: uid -> documented syntax
    heap,                 \* address -> datam dict
    events,               \* the calls made so far, in order
    raised,               \* the exception the last call left with, or "none"
    phase,                \* "building" until build-finished has run
    files,                \* the output directory: file name -> dumped document
    toc_yaml,             \* the content written to toc.yml
    bases,                \* the class hierarchy: class -> its __bases__
    obj,                  \* the live object handed to the function under study
    otype                 \* the _type handed along with it

vars == <<docfx_yaml_modules, docfx_yaml_classes, docfx_module_data, heap,
          events, raised, phase, files, toc_yaml, bases, obj, otype>>

-----------------------------------------------------------------------------
(* Bounds of the model.                                                    *)

MaxEvents == 3

MaxArgs == 3

MaxDefault == 1

MaxDocs == 3

MaxClasses == 4

MaxBases == 2

MaxMergeRuns == 2

-----------------------------------------------------------------------------
(* Python values.                                                          *)

\* None. The code only tests cls and module for truth, and '' is as false
\* as None, so one value stands for both.
NoneVal == <<>>

Truthy(v) == v # <<>>

EmptyDict == <<>>

HasKey(d, k) == k \in DOMAIN d

\* dict.update
Update(d, other) ==
    [k \in DOMAIN d \cup DOMAIN other |-> IF k \in DOMAIN other THEN other[k] ELSE d[k]]

\* dict.pop, as a statement
Pop(d, key) == [k \in DOMAIN d \ {key} |-> d[k]]

\* The characters names are made of, in code-point order.
Alphabet == <<".", "0", "1", "2", "3", "4", "5", "6", "7", "8", "9",
              "C", "E", "K", "a", "b", "c", "d", "f", "l", "m", "x", "y">>

Ord(ch) == CHOOSE i \in 1..Len(Alphabet) : Alphabet[i] = ch

\* s < t on Python strings
RECURSIVE StrLess(_, _)
StrLess(s, t) ==
    IF t = <<>> THEN FALSE
    ELSE IF s = <<>> THEN TRUE
    ELSE IF Head(s) = Head(t) THEN StrLess(Tail(s), Tail(t))
    ELSE Ord(Head(s)) < Ord(Head(t))

\* s.split('.')
RECURSIVE SplitFrom(_, _, _)
SplitFrom(s, i, cur) ==
    IF i > Len(s) THEN <<cur>>
    ELSE IF s[i] = "." THEN <<cur>> \o SplitFrom(s, i + 1, <<>>)
    ELSE SplitFrom(s, i + 1, Append(cur, s[i]))

Split(s) == SplitFrom(s, 1, <<>>)

\* '.'.join(parts)
RECURSIVE Join(_)
Join(parts) ==
    IF parts = <<>> THEN <<>>
    ELSE IF Len(parts) = 1 THEN parts[1]
    ELSE parts[1] \o <<".">> \o Join(Tail(parts))

\* parts[:-k]
DropLast(parts, k) == SubSeq(parts, 1, Len(parts) - k)

\* parts[:k]
Take(parts, k) == SubSeq(parts, 1, IF k < Len(parts) THEN k ELSE Len(parts))

\* s.count('.')
CountDots(s) == Cardinality({i \in 1..Len(s) : s[i] = "."})

\* '%s.yml' % filename
YmlName(filename) == filename \o <<".", "y", "m", "l">>

DigitStr(d) == <<"0", "1", "2", "3", "4", "5", "6", "7", "8", "9">>[d + 1]

\* str(i) for an int
RECURSIVE NatStr(_)
NatStr(i) == IF i < 10 THEN DigitStr(i) ELSE NatStr(i \div 10) \o DigitStr(i % 10)

PyStr(i) == IF i < 0 THEN "-" \o NatStr(-i) ELSE NatStr(i)

-----------------------------------------------------------------------------
(* The type tags.                                                          *)

METHOD == "method"
FUNCTION == "function"
MODULE_T == "module"
CLASS == "class"
EXCEPTION == "exception"
ATTRIBUTE == "attribute"

TYPE_MAPPING ==
    [t \in {METHOD, FUNCTION, MODULE_T, CLASS, EXCEPTION, ATTRIBUTE} |->
        CASE t = METHOD -> "Method"
          [] t = FUNCTION -> "Method"
          [] t = MODULE_T -> "Namespace"
          [] t = CLASS -> "Class"
          [] t = EXCEPTION -> "Class"
          [] t = ATTRIBUTE -> "Property"]

-----------------------------------------------------------------------------
(* The live objects autodoc hands over.  A function object carries what    *)
(* inspect.getargspec reads from it; a class object is an entry of the     *)
(* class hierarchy `bases`; for anything else getargspec raises TypeError  *)
(* and there is no __bases__.                                              *)

FunctionObj(args, defaults) == [kind |-> "function", args |-> args, defaults |-> defaults]

ClassObj(c) == [kind |-> "class", id |-> c]

OtherObj == [kind |-> "other"]

\* obj.__module__ and obj.__name__ of class c
ClassModule(c) == <<"m">>

ClassName(c) == <<"K">> \o <<DigitStr(c)>>

-----------------------------------------------------------------------------
(* extension.py                                                            *)

\* _get_cls_module with the class of a method cut like its module ([:-2])
GetClsModuleSameSlice(_type, name) ==
    IF _type \in {"function", "exception"}
    THEN <<NoneVal, Join(DropLast(Split(name), 1))>>
    ELSE IF _type \in {"method", "attribute"}
    THEN <<Join(DropLast(Split(name), 2)), Join(DropLast(Split(name), 2))>>
    ELSE IF _type \in {"class"}
    THEN <<name, Join(DropLast(Split(name), 1))>>
    ELSE IF _type \in {"module"}
    THEN <<NoneVal, name>>
    ELSE <<NoneVal, NoneVal>>

_get_cls_module(_type, name) ==
    IF _type \in {"function", "exception"}
    THEN <<NoneVal, Join(DropLast(Split(name), 1))>>
    ELSE IF _type \in {"method", "attribute"}
    THEN <<Join(DropLast(Split(name), 1)), Join(DropLast(Split(name), 2))>>
    ELSE IF _type \in {"class"}
    THEN <<name, Join(DropLast(Split(name), 1))>>
    ELSE IF _type \in {"module"}
    THEN <<NoneVal, name>>
    ELSE <<NoneVal, NoneVal>>

_create_reference(datam, parent) ==
    [uid |-> datam.uid, parent |-> parent, isExternal |-> FALSE,
     name |-> datam.name, fullName |-> datam.fullName]

\* lst[idx] = value is an IndexError unless -len(lst) <= idx < len(lst)
IndexOk(lst, idx) == -Len(lst) <= idx /\ idx < Len(lst)

\* the 1-based position Python's lst[idx] names
Position(lst, idx) == IF idx >= 0 THEN idx + 1 ELSE Len(lst) + idx + 1

\* The loop over enumerate(argspec.defaults), from `count` on.  An
\* IndexError leaves the loop for the handler of line 137, which keeps what
\* the list holds by then.
RECURSIVE DefaultsLoop(_, _, _)
DefaultsLoop(args, defaults, count) ==
    IF count >= Len(defaults) THEN args
    ELSE LET cut_count == Len(defaults)
             idx == Len(args) - 1 - cut_count - 1 - count
         IN IF ~IndexOk(args, idx) THEN args
            ELSE DefaultsLoop(
                    [args EXCEPT ![Position(args, idx)] =
                        Update(@, [defaultValue |-> PyStr(defaults[count + 1])])],
                    defaults, count + 1)

\* The args list of _create_datam.
CreateArgs(_type, o) ==
    IF _type \in {METHOD, FUNCTION}
    THEN IF o.kind # "function" THEN <<>>       \* getargspec raised
         ELSE LET args == [i \in 1..Len(o.args) |-> [id |-> o.args[i]]]
              IN IF o.defaults # <<>> THEN DefaultsLoop(args, o.defaults, 0) ELSE args
    ELSE <<>>

\* The docstring lines are empty in this model, so no summary is set; the
\* source location (git remote, file, line) is left out.
_create_datam(cls, module, name, _type, o) ==
    LET mapped_type == TYPE_MAPPING[_type]
        parts == Split(name)
        short_name == parts[Len(parts)]
        args == CreateArgs(_type, o)
    IN  [module |-> module, uid |-> name, type |-> mapped_type, _type |-> _type,
         name |-> short_name, fullName |-> name]
        @@ (IF args # <<>> THEN [syntax |-> [parameters |-> args]] ELSE EmptyDict)
        @@ (IF Truthy(cls) THEN [class |-> cls] ELSE EmptyDict)
        @@ (IF _type \in {"class", "module"}
            THEN [children |-> <<>>, references |-> <<>>] ELSE EmptyDict)

_fullname(c) == ClassModule(c) \o <<".">> \o ClassName(c)

RECURSIVE collect_inheritance(_, _)
RECURSIVE CollectFrom(_, _, _)
\* the loop of collect_inheritance over base.__bases__, from the i-th on
CollectFrom(base, i, to_add) ==
    IF i > Len(bases[base]) THEN to_add
    ELSE LET new_base == bases[base][i]
             new_add == collect_inheritance(new_base, <<_fullname(new_base)>>)
         IN CollectFrom(base, i + 1, Append(to_add, new_add))

\* collect_inheritance without the recursive call of line 232
CollectInheritanceShallow(base, to_add) ==
    to_add \o [i \in 1..Len(bases[base]) |-> <<_fullname(bases[base][i])>>]

collect_inheritance(base, to_add) == CollectFrom(base, 1, to_add)

RECURSIVE InheritanceFrom(_, _, _)
\* the loop of insert_inheritance over obj.__bases__, from the i-th on
InheritanceFrom(c, i, inheritance) ==
    IF i > Len(bases[c]) THEN inheritance
    ELSE LET base == bases[c][i]
             to_add == collect_inheritance(base, <<_fullname(base)>>)
         IN InheritanceFrom(c, i + 1, Append(inheritance, to_add))

insert_inheritance(o, datam) ==
    IF o.kind = "class"
    THEN LET start == IF HasKey(datam, "inheritance") THEN datam.inheritance ELSE <<>>
         IN Update(datam, [inheritance |-> InheritanceFrom(o.id, 1, start)])
    ELSE datam

-----------------------------------------------------------------------------
(* The linking passes.  st is the state a call works on: the two mappings  *)
(* and the heap.                                                           *)

\* lst.append(x) on the list a mapping holds under key
AppendTo(mapping, key, x) == [mapping EXCEPT ![key] = Append(@, x)]

\* AddChild with the child given as the parent of its own reference
AddChildSelfParent(parent, datam) ==
    [parent EXCEPT !.children = Append(@, datam.uid),
                   !.references = Append(@, _create_reference(datam, datam.uid))]

\* obj['children'].append(uid); obj['references'].append(reference)
AddChild(parent, datam) ==
    [parent EXCEPT !.children = Append(@, datam.uid),
                   !.references = Append(@, _create_reference(datam, parent.uid))]

RECURSIVE ModuleLoop(_, _, _, _)
\* the loop of insert_children_on_module over insert_module, from the i-th on
ModuleLoop(st, _type, addr, i) ==
    LET datam == st.heap[addr]
        insert_module == st.modules[datam.module]
    IN  IF i > Len(insert_module) THEN st
        ELSE LET o == st.heap[insert_module[i]]
             IN IF /\ _type \in {"function"}
                   /\ o._type = "module"
                   /\ o.module = datam.module
                THEN [st EXCEPT !.heap[insert_module[i]] = AddChild(o, datam),
                                !.modules = AppendTo(@, datam.module, addr)]
                ELSE IF /\ _type \in {"class", "exception"}
                        /\ o._type = "module"
                        /\ o.module = datam.module
                THEN [st EXCEPT !.heap[insert_module[i]] = AddChild(o, datam)]
                ELSE ModuleLoop(st, _type, addr, i + 1)

insert_children_on_module(st, _type, addr) ==
    LET datam == st.heap[addr]
    IN  IF ~HasKey(datam, "module") \/ datam.module \notin DOMAIN st.modules
        THEN st
        ELSE ModuleLoop(st, _type, addr, 1)

RECURSIVE ClassLoop(_, _, _, _)
\* the loop of insert_children_on_class over insert_class, from the i-th on;
\* the list grows while it is walked
ClassLoop(st, _type, addr, i) ==
    LET datam == st.heap[addr]
        insert_class == st.classes[datam.class]
    IN  IF i > Len(insert_class) THEN st
        ELSE LET o == st.heap[insert_class[i]]
             IN IF o._type # CLASS THEN ClassLoop(st, _type, addr, i + 1)
                ELSE IF _type \in {"method", "attribute"} /\ o.class = datam.class
                THEN ClassLoop(
                        [st EXCEPT !.heap[insert_class[i]] = AddChild(o, datam),
                                   !.classes = AppendTo(@, datam.class, addr)],
                        _type, addr, i + 1)
                ELSE ClassLoop(st, _type, addr, i + 1)

\* whether insert_children_on_class raises KeyError at line 280
ClassLookupFails(st, addr) ==
    LET datam == st.heap[addr]
    IN  HasKey(datam, "class") /\ datam.class \notin DOMAIN st.classes

insert_children_on_class(st, _type, addr) ==
    LET datam == st.heap[addr]
    IN  IF ~HasKey(datam, "class") THEN st
        ELSE ClassLoop(st, _type, addr, 1)

\* lines 210-220: a module or class record enters its mapping
Register(mapping, key, addr) ==
    IF key \notin DOMAIN mapping
    THEN mapping @@ (key :> <<addr>>)
    ELSE AppendTo(mapping, key, addr)

\* The state process_docstring leaves, and the exception it leaves with.
ProcessDocstring(st, _type, name, o) ==
    LET cm == _get_cls_module(_type, name)
        cls == cm[1]
        module == cm[2]
    IN  IF ~Truthy(module) THEN [st |-> st, raised |-> "none"]
        ELSE
        LET addr == Len(st.heap) + 1
            datam == _create_datam(cls, module, name, _type, o)
            st0 == [st EXCEPT !.heap = Append(@, datam)]
            st1 == IF _type = MODULE_T
                   THEN [st0 EXCEPT !.modules = Register(@, module, addr)]
                   ELSE st0
            st2 == IF _type = CLASS
                   THEN [st1 EXCEPT !.classes = Register(@, cls, addr)]
                   ELSE st1
            st3 == [st2 EXCEPT !.heap[addr] = insert_inheritance(o, @)]
            st4 == insert_children_on_module(st3, _type, addr)
        IN  IF ClassLookupFails(st4, addr)
            THEN [st |-> st4, raised |-> "KeyError"]
            ELSE [st |-> insert_children_on_class(st4, _type, addr), raised |-> "none"]

-----------------------------------------------------------------------------
(* build_finished.                                                         *)

\* truth of a Python str
StrTruthy(text) == text # ""

\* zip(arg_params, doc_params) with args.update(docs) on each pair
ZipUpdate(arg_params, doc_params) ==
    [i \in 1..(IF Len(arg_params) < Len(doc_params) THEN Len(arg_params) ELSE Len(doc_params))
        |-> Update(arg_params[i], doc_params[i])]

\* SelfUndocumented with the comparison of line 328 in place of line 332's
SelfUndocumentedLoose(arg_params, doc_params) == Len(arg_params) - Len(doc_params) > 1

\* whether the first introspected parameter is kept aside as `self`
SelfUndocumented(arg_params, doc_params) == Len(arg_params) - Len(doc_params) = 1

\* merged_params of lines 323-338, from obj['syntax'] and the documented syntax
MergedParams(syntax, documented) ==
    IF HasKey(documented, "parameters")
    THEN LET arg_params == IF HasKey(syntax, "parameters") THEN syntax.parameters ELSE <<>>
             doc_params == documented.parameters
         IN IF arg_params # <<>> /\ doc_params # <<>>
            THEN IF SelfUndocumented(arg_params, doc_params)
                 THEN <<arg_params[1]>> \o ZipUpdate(Tail(arg_params), doc_params)
                 ELSE ZipUpdate(arg_params, doc_params)
            ELSE <<>>
    ELSE <<>>

\* lines 320-345 on one record: merge the documented syntax into it
MergeObj(o, module_data) ==
    IF o.uid \notin DOMAIN module_data THEN o
    ELSE LET documented == module_data[o.uid]
             syntax0 == IF HasKey(o, "syntax") THEN o.syntax ELSE EmptyDict
             merged_params == MergedParams(syntax0, documented)
             syntax1 == Update(syntax0, documented)
             syntax2 == IF merged_params # <<>>
                        THEN Update(syntax1, [parameters |-> merged_params])
                        ELSE syntax1
         IN IF HasKey(syntax2, "summary") /\ StrTruthy(syntax2.summary)
            THEN Update(o, [syntax |-> Pop(syntax2, "summary"), summary |-> syntax2.summary])
            ELSE Update(o, [syntax |-> syntax2])

RECURSIVE MergeLoop(_, _, _, _, _)
\* the loop of lines 319-347 over yaml_data, from the i-th record on: the
\* heap it leaves and the references it has collected
MergeLoop(h, module_data, yaml_data, i, references) ==
    IF i > Len(yaml_data) THEN [heap |-> h, references |-> references]
    ELSE LET addr == yaml_data[i]
             merged == MergeObj(h[addr], module_data)
         IN IF HasKey(merged, "references")
            THEN MergeLoop([h EXCEPT ![addr] = Pop(merged, "references")], module_data,
                           yaml_data, i + 1, references \o merged.references)
            ELSE MergeLoop([h EXCEPT ![addr] = merged], module_data,
                           yaml_data, i + 1, references)

TocEntry(filename) == [name |-> filename, href |-> YmlName(filename)]

\* TocAdd with the nesting starting one segment too late
TocAddDeep(toc, filename) ==
    IF CountDots(filename) > 2
    THEN LET second_level == Join(Take(Split(filename), 2))
             found == {i \in 1..Len(toc) : toc[i].name = second_level}
         IN IF found = {} THEN toc
            ELSE LET i == CHOOSE j \in found : \A k \in found : j <= k
                 IN [toc EXCEPT ![i] =
                        Update(@, [items |-> Append(IF HasKey(@, "items") THEN @.items ELSE <<>>,
                                                    TocEntry(filename))])]
    ELSE Append(toc, TocEntry(filename))

\* lines 365-376: the entry of one file in toc_yaml
TocAdd(toc, filename) ==
    IF CountDots(filename) > 1
    THEN LET second_level == Join(Take(Split(filename), 2))
             found == {i \in 1..Len(toc) : toc[i].name = second_level}
         IN IF found = {} THEN toc      \* 'No second level module found'
            ELSE LET i == CHOOSE j \in found : \A k \in found : j <= k
                 IN [toc EXCEPT ![i] =
                        Update(@, [items |-> Append(IF HasKey(@, "items") THEN @.items ELSE <<>>,
                                                    TocEntry(filename))])]
    ELSE Append(toc, TocEntry(filename))

\* sorted(keys)
RECURSIVE Sorted(_)
Sorted(keys) ==
    IF keys = {} THEN <<>>
    ELSE LET least == CHOOSE k \in keys : \A other \in keys \ {k} : StrLess(k, other)
         IN <<least>> \o Sorted(keys \ {least})

RECURSIVE DataSetLoop(_, _, _, _, _)
\* the loop of line 311 over sorted(data_set.items()), from the i-th key on;
\* out is the heap, the files and the toc so far
DataSetLoop(out, module_data, data_set, keys, i) ==
    IF i > Len(keys) THEN out
    ELSE LET filename == keys[i]
         IN IF ~Truthy(filename)
            THEN DataSetLoop(out, module_data, data_set, keys, i + 1)
            ELSE LET yaml_data == data_set[filename]
                     done == MergeLoop(out.heap, module_data, yaml_data, 1, <<>>)
                     document == [items |-> [k \in 1..Len(yaml_data) |-> done.heap[yaml_data[k]]],
                                  references |-> done.references,
                                  api_name |-> <<>>]
                 IN DataSetLoop(
                        [heap |-> done.heap,
                         files |-> (YmlName(filename) :> document) @@ out.files,
                         toc |-> TocAdd(out.toc, filename)],
                        module_data, data_set, keys, i + 1)

\* What build_finished leaves: the heap, the files and the toc.
BuildFinished(h, modules, classes, module_data) ==
    LET start == [heap |-> h, files |-> <<>>, toc |-> <<>>]
        after_modules == DataSetLoop(start, module_data, modules,
                                     Sorted(DOMAIN modules), 1)
    IN  DataSetLoop(after_modules, module_data, classes, Sorted(DOMAIN classes), 1)

-----------------------------------------------------------------------------
(* The documented code base: the symbols autodoc reports, the live object  *)
(* behind each, and the field lists the docfield patch captures.           *)

Sym(_type, name) == [_type |-> _type, name |-> name]

Name_a_b == <<"a", ".", "b">>
Name_a_b_c == <<"a", ".", "b", ".", "c">>
Name_a_b_C == <<"a", ".", "b", ".", "C">>
Name_a_b_C_m == <<"a", ".", "b", ".", "C", ".", "m">>
Name_a_b_C_x == <<"a", ".", "b", ".", "C", ".", "x">>
Name_a_b_f == <<"a", ".", "b", ".", "f">>
Name_a_b_E == <<"a", ".", "b", ".", "E">>
Name_a_b_d == <<"a", ".", "b", ".", "d">>
Name_K == <<"K">>

Symbols ==
    { Sym(MODULE_T, Name_a_b), Sym(MODULE_T, Name_a_b_c),
      Sym(CLASS, Name_a_b_C), Sym(CLASS, Name_a_b), Sym(CLASS, Name_K),
      Sym(METHOD, Name_a_b_C_m), Sym(ATTRIBUTE, Name_a_b_C_x),
      Sym(FUNCTION, Name_a_b_f), Sym(EXCEPTION, Name_a_b_E),
      Sym("data", Name_a_b_d) }

ObjOf(sym) ==
    CASE sym._type = FUNCTION -> FunctionObj(<<"a", "b">>, <<1>>)
      [] sym._type = METHOD -> FunctionObj(<<"self", "x">>, <<>>)
      [] sym._type = CLASS -> ClassObj(2)
      [] sym._type = EXCEPTION -> ClassObj(3)
      [] OTHER -> OtherObj

\* class 1 has no bases; classes 2 and 3 each derive from the one before
CodebaseBases == [c \in 1..MaxClasses |-> IF c \in {2, 3} THEN <<c - 1>> ELSE <<>>]

DocumentedUids == {Name_a_b_f, Name_a_b_C_m}

DocOf(uid) ==
    IF uid = Name_a_b_f
    THEN [parameters |-> <<[id |-> "a", description |-> "first"],
                           [id |-> "b", description |-> "second"]>>,
          summary |-> "text"]
    ELSE [parameters |-> <<[id |-> "x", description |-> "the x"]>>]

-----------------------------------------------------------------------------
(* The build session: builder-inited has run, autodoc-process-docstring    *)
(* fires per symbol, build-finished fires once.                            *)

\* build_init, lines 53-55
Init ==
    /\ docfx_yaml_modules = EmptyDict
    /\ docfx_yaml_classes = EmptyDict
    /\ docfx_module_data = EmptyDict
    /\ heap = <<>>
    /\ events = <<>>
    /\ raised = "none"
    /\ phase = "building"
    /\ files = EmptyDict
    /\ toc_yaml = <<>>
    /\ bases = CodebaseBases
    /\ obj = OtherObj
    /\ otype = MODULE_T

process_docstring(sym) ==
    /\ phase = "building"
    /\ Len(events) < MaxEvents
    /\ LET st == [modules |-> docfx_yaml_modules, classes |-> docfx_yaml_classes,
                  heap |-> heap]
           res == ProcessDocstring(st, sym._type, sym.name, ObjOf(sym))
       IN /\ docfx_yaml_modules' = res.st.modules
          /\ docfx_yaml_classes' = res.st.classes
          /\ heap' = res.st.heap
          /\ raised' = res.raised
    /\ events' = Append(events, sym)
    /\ UNCHANGED <<docfx_module_data, phase, files, toc_yaml, bases, obj, otype>>

\* The patched docfield transform stores the documented syntax of a symbol.
patch_docfields(uid) ==
    /\ phase = "building"
    /\ uid \notin DOMAIN docfx_module_data
    /\ docfx_module_data' = (uid :> DocOf(uid)) @@ docfx_module_data
    /\ UNCHANGED <<docfx_yaml_modules, docfx_yaml_classes, heap, events, raised,
                   phase, files, toc_yaml, bases, obj, otype>>

build_finished ==
    /\ phase = "building"
    /\ LET out == BuildFinished(heap, docfx_yaml_modules, docfx_yaml_classes,
                                docfx_module_data)
       IN /\ heap' = out.heap
          /\ files' = out.files
          /\ toc_yaml' = out.toc
    /\ phase' = "finished"
    /\ raised' = "none"
    /\ UNCHANGED <<docfx_yaml_modules, docfx_yaml_classes, docfx_module_data, events,
                   bases, obj, otype>>

Next ==
    \/ \E sym \in Symbols : process_docstring(sym)
    \/ \E uid \in DocumentedUids : patch_docfields(uid)
    \/ build_finished

Spec == Init /\ [][Next]_vars

-----------------------------------------------------------------------------
(* One call of the handler on any live object: the signatures a function   *)
(* can have, and the class hierarchies a class can sit in.                 *)

ArgIds == <<"self", "a", "b", "c", "d", "e">>

\* the first n parameter names
ArgList(n) == [i \in 1..n |-> ArgIds[i]]

\* every signature of up to MaxArgs positional parameters, the last k of
\* which have defaults
FunctionObjs ==
    UNION { { FunctionObj(ArgList(n), d) :
                d \in UNION { [1..k -> 0..MaxDefault] : k \in 0..n } } :
            n \in 0..MaxArgs }

\* the sequences without repetition, of at most maxlen elements of S
InjSeqs(S, maxlen) ==
    UNION { { q \in [1..k -> S] : \A i, j \in 1..k : i # j => q[i] # q[j] } :
            k \in 0..maxlen }

\* every hierarchy of n classes in which a class derives from earlier ones
RECURSIVE Hierarchies(_)
Hierarchies(n) ==
    IF n = 0 THEN {<<>>}
    ELSE { Append(h, b) : h \in Hierarchies(n - 1), b \in InjSeqs(1..(n - 1), MaxBases) }

\* the state before any symbol is reported, for the object obj of type otype
InitCall ==
    /\ docfx_yaml_modules = EmptyDict
    /\ docfx_yaml_classes = EmptyDict
    /\ docfx_module_data = EmptyDict
    /\ heap = <<>>
    /\ events = <<>>
    /\ raised = "none"
    /\ phase = "building"
    /\ files = EmptyDict
    /\ toc_yaml = <<>>

InitArgs ==
    /\ InitCall
    /\ bases = CodebaseBases
    /\ otype \in {METHOD, FUNCTION, MODULE_T, CLASS, EXCEPTION, ATTRIBUTE}
    /\ obj \in FunctionObjs \cup {OtherObj}

InitInherit ==
    /\ InitCall
    /\ bases \in Hierarchies(MaxClasses)
    /\ otype \in {CLASS, EXCEPTION}
    /\ obj \in {ClassObj(c) : c \in 1..MaxClasses}

\* autodoc reports the one symbol a.b.C.m, whose object is obj
report_object ==
    /\ events = <<>>
    /\ LET st == [modules |-> docfx_yaml_modules, classes |-> docfx_yaml_classes,
                  heap |-> heap]
           res == ProcessDocstring(st, otype, Name_a_b_C_m, obj)
       IN /\ docfx_yaml_modules' = res.st.modules
          /\ docfx_yaml_classes' = res.st.classes
          /\ heap' = res.st.heap
          /\ raised' = res.raised
    /\ events' = Append(events, Sym(otype, Name_a_b_C_m))
    /\ UNCHANGED <<docfx_module_data, phase, files, toc_yaml, bases, obj, otype>>

SpecArgs == InitArgs /\ [][report_object]_vars

SpecInherit == InitInherit /\ [][report_object]_vars

-----------------------------------------------------------------------------
(* The merge of build_finished on one record, applied again and again.     *)

\* documented parameters: m of them, naming the parameters from the
\* (1 + skip)-th on
DocParams(m, skip) ==
    [j \in 1..m |-> [id |-> ArgIds[j + skip], description |-> "doc"]]

\* what the docfield patch may have stored for a symbol
DocDatas ==
    LET params == {EmptyDict} \cup
                  { [parameters |-> DocParams(m, skip)] : m \in 0..MaxDocs, skip \in {0, 1} }
        summaries == {EmptyDict, [summary |-> ""], [summary |-> "text"]}
    IN  { Update(pr, su) : pr \in params, su \in summaries }

\* a function record as _create_datam builds it, and what was documented
InitMerge ==
    /\ docfx_yaml_modules = EmptyDict
    /\ docfx_yaml_classes = EmptyDict
    /\ events = <<>>
    /\ raised = "none"
    /\ phase = "building"
    /\ files = EmptyDict
    /\ toc_yaml = <<>>
    /\ bases = CodebaseBases
    /\ otype = FUNCTION
    /\ obj \in FunctionObjs \cup {OtherObj}
    /\ heap = <<_create_datam(NoneVal, Name_a_b, Name_a_b_f, FUNCTION, obj)>>
    /\ docfx_module_data \in {EmptyDict} \cup { (Name_a_b_f :> d) : d \in DocDatas }

\* lines 320-345 run on the record once more
merge_step ==
    /\ Len(events) < MaxMergeRuns
    /\ heap' = [heap EXCEPT ![1] = MergeObj(@, docfx_module_data)]
    /\ events' = Append(events, "merge")
    /\ UNCHANGED <<docfx_yaml_modules, docfx_yaml_classes, docfx_module_data, raised,
                   phase, files, toc_yaml, bases, obj, otype>>

SpecMerge == InitMerge /\ [][merge_step]_vars

-----------------------------------------------------------------------------
(* Properties.                                                             *)

Range(q) == {q[i] : i \in 1..Len(q)}

Occurrences(q, x) == Cardinality({i \in 1..Len(q) : q[i] = x})

SetMax(S) == IF S = {} THEN 0 ELSE CHOOSE x \in S : \A y \in S : y <= x

\* the addresses the lists of a mapping hold
HeldBy(mapping) == UNION {Range(mapping[k]) : k \in DOMAIN mapping}

\* the name minus its last dotted segment
OwnerOf(name) == Join(DropLast(Split(name), 1))

\* the class records kept under a class name
ClassRecordsOf(cls) ==
    IF cls \in DOMAIN docfx_yaml_classes
    THEN {a \in Range(docfx_yaml_classes[cls]) : heap[a]._type = CLASS}
    ELSE {}

\* the first record of the given type in a list
FirstOfType(lst, t) ==
    LET at == {i \in 1..Len(lst) : heap[lst[i]]._type = t}
    IN  lst[CHOOSE i \in at : \A j \in at : i <= j]

Finished == phase = "finished"

\* the symbol the step under way reports
Reporting == events'[Len(events')]

\* C1: after build_finished, every method or attribute that was reported
\* stands exactly once in the children of the record of its owning class.
C1_MemberListedOnce ==
    Finished =>
        \A i \in 1..Len(events) :
            events[i]._type \in {METHOD, ATTRIBUTE} =>
                LET records == ClassRecordsOf(OwnerOf(events[i].name))
                IN  /\ records # {}
                    /\ \A a \in records :
                          Occurrences(heap[a].children, events[i].name) = 1

\* whether module mo, class cl and method me were reported in this order
InOrder(mo, cl, me) ==
    \E i, j, k \in 1..Len(events) :
        i < j /\ j < k /\ events[i] = mo /\ events[j] = cl /\ events[k] = me

\* the modules M, classes M.C and methods M.C.m of the code base
ModuleClassMethod ==
    { t \in Symbols \X Symbols \X Symbols :
        /\ t[1]._type = MODULE_T /\ t[2]._type = CLASS /\ t[3]._type = METHOD
        /\ OwnerOf(t[2].name) = t[1].name
        /\ OwnerOf(t[3].name) = t[2].name }

\* file f has an item with uid cls whose children include meth, and a
\* reference with parent cls
FileHolds(f, cls, meth) ==
    /\ f \in DOMAIN files
    /\ \E i \in 1..Len(files[f].items) :
          LET item == files[f].items[i]
          IN  item.uid = cls /\ HasKey(item, "children") /\ meth \in Range(item.children)
    /\ \E j \in 1..Len(files[f].references) : files[f].references[j].parent = cls

\* C2, as claimed: for a module M, a class M.C and a method M.C.m reported
\* in this order, the file M.yml holds an item M.C whose children include
\* M.C.m, and a reference with parent M.C.
C2_ClassItemInModuleFile ==
    Finished =>
        \A t \in ModuleClassMethod :
            InOrder(t[1], t[2], t[3]) => FileHolds(YmlName(t[1].name), t[2].name, t[3].name)

\* C2, amended: for a module M, a class M.C and a method M.C.m reported in
\* this order, it is the file M.C.yml that holds an item M.C whose children
\* include M.C.m, and a reference with parent M.C.
C2_ClassItemInClassFile ==
    Finished =>
        \A t \in ModuleClassMethod :
            InOrder(t[1], t[2], t[3]) => FileHolds(YmlName(t[2].name), t[2].name, t[3].name)

C2_Witness ==
    /\ Finished
    /\ events = <<Sym(MODULE_T, Name_a_b), Sym(CLASS, Name_a_b_C), Sym(METHOD, Name_a_b_C_m)>>

\* the parameter list of a record
ParametersOf(o) ==
    IF HasKey(o, "syntax") /\ HasKey(o.syntax, "parameters") THEN o.syntax.parameters ELSE <<>>

\* C3: for a function or method with n positional parameters, the last k of
\* which have defaults, _create_datam lists the n parameters in order, and a
\* parameter carries defaultValue exactly when it has a default, the value
\* being the string form of its own default.
C3_DefaultsOnOwnParameters ==
    (events # <<>> /\ otype \in {METHOD, FUNCTION} /\ obj.kind = "function") =>
        LET params == ParametersOf(heap[1])
            n == Len(obj.args)
            k == Len(obj.defaults)
        IN  /\ Len(params) = n
            /\ \A i \in 1..n :
                  /\ params[i].id = obj.args[i]
                  /\ HasKey(params[i], "defaultValue") <=> i > n - k
                  /\ i > n - k => params[i].defaultValue = PyStr(obj.defaults[i - (n - k)])

\* C4: the merge of build_finished is idempotent: run on a record it has
\* already merged, it leaves the parameter list as it is.
C4_MergeIdempotent ==
    [][events # <<>> => ParametersOf(heap'[1]) = ParametersOf(heap[1])]_vars

C4_Witness ==
    /\ Len(events) = 2
    /\ Name_a_b_f \in DOMAIN docfx_module_data
    /\ HasKey(docfx_module_data[Name_a_b_f], "parameters")
    /\ Len(ParametersOf(heap[1])) = Len(docfx_module_data[Name_a_b_f].parameters) + 1
    /\ Len(ParametersOf(heap[1])) >= 3
    /\ \E i \in 1..Len(ParametersOf(heap[1])) : HasKey(ParametersOf(heap[1])[i], "description")

\* the nesting depth of a list [name, [...], [...]]
RECURSIVE NestDepth(_)
NestDepth(entry) == 1 + SetMax({NestDepth(entry[i]) : i \in 2..Len(entry)})

\* the number of classes on the longest chain of bases from c upwards
RECURSIVE ChainLength(_)
ChainLength(c) == 1 + SetMax({ChainLength(bases[c][i]) : i \in 1..Len(bases[c])})

\* C5: insert_inheritance records one entry per direct base, and the
\* nesting depth of an entry is the number of classes on the longest chain
\* of bases from that base up to a class without bases.
C5_InheritanceDepth ==
    events # <<>> =>
        LET datam == heap[1]
            direct == bases[obj.id]
        IN  /\ HasKey(datam, "inheritance")
            /\ Len(datam.inheritance) = Len(direct)
            /\ \A i \in 1..Len(direct) :
                  /\ datam.inheritance[i][1] = _fullname(direct[i])
                  /\ NestDepth(datam.inheritance[i]) = ChainLength(direct[i])

C5_Witness ==
    /\ events # <<>>
    /\ Len(bases[obj.id]) >= 2
    /\ HasKey(heap[1], "inheritance")
    /\ \E i \in 1..Len(heap[1].inheritance) : NestDepth(heap[1].inheritance[i]) >= 3

\* the keys of the two mappings
Keys == DOMAIN docfx_yaml_modules \cup DOMAIN docfx_yaml_classes

\* the first two dotted segments of a name
SecondLevel(name) == Join(Take(Split(name), 2))

\* the top-level entries of toc.yml with a name
TopEntries(name) == {i \in 1..Len(toc_yaml) : toc_yaml[i].name = name}

\* the places <<i, j>> where a name stands in the items of a top-level entry
NestedEntries(name) ==
    UNION { { <<i, j>> : j \in {n \in 1..Len(toc_yaml[i].items) :
                                  toc_yaml[i].items[n].name = name} } :
            i \in {m \in 1..Len(toc_yaml) : HasKey(toc_yaml[m], "items")} }

One(cond) == IF cond THEN 1 ELSE 0

\* C6, as claimed: every key K of the mappings gets the file K.yml, and
\* toc.yml lists K exactly once, at the top level when K has at most two
\* dotted segments, otherwise in the items of the single top-level entry
\* named by its first two segments.
C6_EveryKeyListedOnce ==
    Finished =>
        \A K \in Keys :
            /\ YmlName(K) \in DOMAIN files
            /\ Cardinality(TopEntries(K)) + Cardinality(NestedEntries(K)) = 1
            /\ CountDots(K) <= 1 => Cardinality(TopEntries(K)) = 1
            /\ CountDots(K) > 1 =>
                  /\ Cardinality(TopEntries(SecondLevel(K))) = 1
                  /\ \A at \in NestedEntries(K) : at[1] \in TopEntries(SecondLevel(K))

\* C6, amended: the files written are exactly the K.yml of the keys K; a
\* key of at most two dotted segments is a top-level entry of toc.yml once
\* per mapping that holds it; a longer key is listed only in the items of
\* the first top-level entry named by its first two segments, once per
\* mapping that holds it and is reached after that entry was added (the
\* modules are walked before the classes, each in sorted order), and is
\* not listed when no such entry was there.
C6_KeysListedUnderParent ==
    Finished =>
        /\ DOMAIN files = {YmlName(K) : K \in Keys}
        /\ \A K \in Keys :
              IF CountDots(K) <= 1
              THEN /\ Cardinality(TopEntries(K)) =
                          One(K \in DOMAIN docfx_yaml_modules)
                        + One(K \in DOMAIN docfx_yaml_classes)
                   /\ NestedEntries(K) = {}
              ELSE /\ TopEntries(K) = {}
                   /\ Cardinality(NestedEntries(K)) =
                          One(K \in DOMAIN docfx_yaml_modules
                              /\ SecondLevel(K) \in DOMAIN docfx_yaml_modules)
                        + One(K \in DOMAIN docfx_yaml_classes /\ SecondLevel(K) \in Keys)
                   /\ \A at \in NestedEntries(K) :
                          /\ at[1] \in TopEntries(SecondLevel(K))
                          /\ \A i \in TopEntries(SecondLevel(K)) : at[1] <= i

C6_Witness ==
    /\ Finished
    /\ \E i \in 1..Len(toc_yaml) :
          HasKey(toc_yaml[i], "items") /\ Len(toc_yaml[i].items) >= 2
    /\ \E K \in Keys : CountDots(K) <= 1

\* the items of the output files that are the record of a symbol
ItemsOf(sym) ==
    UNION { { <<f, i>> : i \in {n \in 1..Len(files[f].items) :
                                  /\ files[f].items[n].uid = sym.name
                                  /\ files[f].items[n]._type = sym._type} } :
            f \in DOMAIN files }

\* whether no symbol was reported twice
ReportedOnce == \A i, j \in 1..Len(events) : i # j => events[i] # events[j]

\* C7: when each symbol is reported once, the record of every symbol of a
\* mapped type with an owning module is an item of exactly one output file.
C7_RecordWrittenOnce ==
    (Finished /\ ReportedOnce) =>
        \A i \in 1..Len(events) :
            (/\ events[i]._type \in DOMAIN TYPE_MAPPING
             /\ Truthy(_get_cls_module(events[i]._type, events[i].name)[2]))
            => Cardinality(ItemsOf(events[i])) = 1

\* C8: a method or attribute whose owning class has no record is skipped:
\* the call raises nothing and leaves both mappings as they were.
C8_MissingClassSkipped ==
    [][(/\ events' # events
        /\ Reporting._type \in {METHOD, ATTRIBUTE}
        /\ OwnerOf(Reporting.name) \notin DOMAIN docfx_yaml_classes)
       => (/\ raised' = "none"
           /\ docfx_yaml_modules' = docfx_yaml_modules
           /\ docfx_yaml_classes' = docfx_yaml_classes)]_vars

\* the parent records of a mapping whose children list the step under way
\* extends
Grown(mapping) ==
    {a \in HeldBy(mapping) :
        HasKey(heap[a], "children") /\ Len(heap'[a].children) > Len(heap[a].children)}

\* C9: one call appends the child to at most one parent record of the
\* module mapping and at most one of the class mapping, the first matching
\* record of the list.
C9_FirstMatchWins ==
    [][events' # events =>
        /\ Cardinality(Grown(docfx_yaml_modules)) <= 1
        /\ Cardinality(Grown(docfx_yaml_classes)) <= 1
        /\ \A a \in Grown(docfx_yaml_modules) :
              a = FirstOfType(docfx_yaml_modules[heap[a].module], MODULE_T)
        /\ \A a \in Grown(docfx_yaml_classes) :
              a = FirstOfType(docfx_yaml_classes[heap[a].class], CLASS)]_vars

\* C10: before build_finished, the references of every module or class
\* record mirror its children: as many, the i-th naming the i-th child as
\* uid and the record itself as parent.
C10_ReferencesMirrorChildren ==
    phase = "building" =>
        \A a \in HeldBy(docfx_yaml_modules) \cup HeldBy(docfx_yaml_classes) :
            heap[a]._type \in {MODULE_T, CLASS} =>
                /\ Len(heap[a].references) = Len(heap[a].children)
                /\ \A i \in 1..Len(heap[a].children) :
                      /\ heap[a].references[i].uid = heap[a].children[i]
                      /\ heap[a].references[i].parent = heap[a].uid

C10_Witness ==
    /\ phase = "building"
    /\ \E a \in HeldBy(docfx_yaml_modules) \cup HeldBy(docfx_yaml_classes) :
          HasKey(heap[a], "children") /\ Len(heap[a].children) >= 2

====
